---- MODULE Spec2Model ----
(***************************************************************************)
(* Model of the ECMAScript-specification extraction pipeline               *)
(* (src/unnamed/part_000): TOC construction, section reclassification,     *)
(* signature parsing, attribute mining, abstract-template expansion and    *)
(* global-flag propagation.                                                *)
(*                                                                         *)
(* Strings are sequences of tokens.  A token is a word (letters, digits,   *)
(* '.', '_', '%', taken as one unit) or one of the separators              *)
(* " " "\n" "(" ")" "," "[" "]" "..." and the backtick.  String          *)
(* operations of the code                                                  *)
(* (replace, split, includes, endsWith, regular expressions) are computed  *)
(* on these sequences; a pattern never matches inside a word except where  *)
(* StartsWithWord says so.                                                 *)
(***************************************************************************)
EXTENDS Integers, Sequences, FiniteSets, TLC

VARIABLES pc, doc, toc, tocFile, groups, assembled, objects, dataFile,
          input, output

vars == <<pc, doc, toc, tocFile, groups, assembled, objects, dataFile,
          input, output>>

(***************************************************************************)
(* Bounds                                                                  *)
(***************************************************************************)
MaxParams == 4

(***************************************************************************)
(* Generic string (token sequence) operations                              *)
(***************************************************************************)
Range(s) == {s[i] : i \in 1..Len(s)}

RECURSIVE Flat(_)
Flat(ss) == IF ss = <<>> THEN <<>> ELSE Head(ss) \o Flat(Tail(ss))

\* s.slice(from) with 0-based from, as a 1-based suffix
Drop(s, n) == IF n >= Len(s) THEN <<>> ELSE SubSeq(s, n + 1, Len(s))
Take(s, n) == IF n <= 0 THEN <<>> ELSE SubSeq(s, 1, IF n > Len(s) THEN Len(s) ELSE n)

\* p occurs in s starting at 1-based position i
OccursAt(s, p, i) ==
  /\ i >= 1
  /\ i + Len(p) - 1 <= Len(s)
  /\ \A j \in 1..Len(p) : s[i + j - 1] = p[j]

\* 1-based position of the first occurrence of p in s, 0 when there is none
RECURSIVE IndexFrom(_, _, _)
IndexFrom(s, p, i) ==
  IF i + Len(p) - 1 > Len(s) THEN 0
  ELSE IF OccursAt(s, p, i) THEN i
  ELSE IndexFrom(s, p, i + 1)
IndexOf(s, p) == IndexFrom(s, p, 1)

\* String.prototype.replace(p, r) with a string pattern: first occurrence only
ReplaceFirst(s, p, r) ==
  LET i == IndexOf(s, p)
  IN IF i = 0 THEN s
     ELSE Take(s, i - 1) \o r \o Drop(s, i - 1 + Len(p))

\* String.prototype.replaceAll(p, r), p non-empty
RECURSIVE ReplaceAll(_, _, _)
ReplaceAll(s, p, r) ==
  LET i == IndexOf(s, p)
  IN IF i = 0 THEN s
     ELSE Take(s, i - 1) \o r \o ReplaceAll(Drop(s, i - 1 + Len(p)), p, r)

Includes(s, p) == IndexOf(s, p) # 0

EndsWith(s, p) == Len(p) <= Len(s) /\ OccursAt(s, p, Len(s) - Len(p) + 1)
StartsWith(s, p) == OccursAt(s, p, 1)

\* String.prototype.split(sep) for a one-token separator: the pieces
RECURSIVE Split(_, _)
Split(s, sep) ==
  LET i == IndexOf(s, <<sep>>)
  IN IF i = 0 THEN <<s>>
     ELSE <<Take(s, i - 1)>> \o Split(Drop(s, i), sep)

\* words joined by single spaces
RECURSIVE Sp(_)
Sp(ws) ==
  IF Len(ws) <= 1 THEN ws ELSE <<Head(ws), " ">> \o Sp(Tail(ws))

(***************************************************************************)
(* parseParameters (part_000:119-130)                                      *)
(***************************************************************************)
\* title.replace(/(?<!,) /gu, ""): drop every space not preceded by a comma
RECURSIVE StripSpaces(_, _)
StripSpaces(s, prev) ==
  IF s = <<>> THEN <<>>
  ELSE IF Head(s) = " " /\ prev # ","
       THEN StripSpaces(Tail(s), Head(s))
       ELSE <<Head(s)>> \o StripSpaces(Tail(s), Head(s))

\* /(?<name>.*)\((?<parameters>.*)\)/u : both groups greedy, so the name ends
\* at the last "(" that still has a ")" after it and the parameters end at
\* the last ")".
LastIndex(s, tok) ==
  IF tok \in Range(s)
  THEN CHOOSE i \in 1..Len(s) : s[i] = tok /\ \A j \in (i + 1)..Len(s) : s[j] # tok
  ELSE 0

SignatureMatches(s) ==
  \E i \in 1..Len(s) : \E j \in (i + 1)..Len(s) : s[i] = "(" /\ s[j] = ")"

SignatureGroups(s) ==
  LET close == LastIndex(s, ")")
      open  == LastIndex(Take(s, close - 1), "(")
  IN [name |-> Take(s, open - 1),
      parameters |-> SubSeq(s, open + 1, close - 1)]

parseParametersThrows(title) == ~SignatureMatches(StripSpaces(title, ""))

parseParameters(title) ==
  LET g == SignatureGroups(StripSpaces(title, ""))
      count == Len(Split(g.parameters, ","))
      optional == Len(Split(g.parameters, "[")) - 1
      rest == Includes(g.parameters, <<"...">>)
  IN [name |-> g.name \o <<"(", ")">>,
      parameters |-> [required |-> count - optional - (IF rest THEN 1 ELSE 0),
                      optional |-> optional,
                      rest |-> rest]]

(***************************************************************************)
(* Values standing for JavaScript's null and undefined                     *)
(***************************************************************************)
nullAttributes == <<"null">>
nullConstructor == [type |-> "null"]
undefined == [undefined |-> TRUE]

\* Array.prototype.map / filter / find on sequences
Map(F(_), s) == [i \in 1..Len(s) |-> F(s[i])]
Filter(P(_), s) == SelectSeq(s, P)
FindIndex(P(_), s) ==
  LET hits == {i \in 1..Len(s) : P(s[i])}
  IN IF hits = {} THEN -1
     ELSE (CHOOSE i \in hits : \A j \in hits : i <= j) - 1
Find(P(_), s) ==
  LET i == FindIndex(P, s) IN IF i = -1 THEN undefined ELSE s[i + 1]

\* Array.prototype.slice(start, end) with JavaScript's index normalisation
Slice(s, start, end) ==
  LET n == Len(s)
      from == IF start < 0 THEN (IF n + start < 0 THEN 0 ELSE n + start)
              ELSE (IF start > n THEN n ELSE start)
      to == IF end < 0 THEN (IF n + end < 0 THEN 0 ELSE n + end)
            ELSE (IF end > n THEN n ELSE end)
  IN IF from >= to THEN <<>> ELSE SubSeq(s, from + 1, to)

(***************************************************************************)
(* Words: what the character-level patterns see inside one token           *)
(***************************************************************************)
\* words w that begin with the literal lit, besides lit itself
ProperPrefixOf ==
  {<<"Constructor", "Constructors">>, <<"Object", "Objects">>}
StartsWithWord(w, lit) == w = lit \/ <<lit, w>> \in ProperPrefixOf

\* /^[A-Z][A-Za-z]+/ : a capitalised, purely alphabetic word
CapitalAlphaWords ==
  {"Object", "Error", "AggregateError", "Array", "Foo", "Math", "Reflect",
   "Atomics", "Int8Array", "Uint8Array", "RangeError", "TypeError",
   "Encode", "Decode", "Legacy", "Properties", "The", "Value", "Function",
   "Constructor", "Other", "Native", "Abstract", "Common", "URI", "NaN"}
\* /^[A-Z]/ : a word with a capital first letter
CapitalWords == CapitalAlphaWords \cup {"Object.prototype", "Object.assign",
   "Object.prototype.constructor", "Object.prototype.valueOf",
   "Object.prototype.__defineGetter__", "Reflect.apply", "Math.PI",
   "Math.abs", "Error.prototype", "AggregateError.prototype"}
\* /Record$/ : a word that ends in "Record"
RecordWords == {"Record", "PropertyDescriptorRecord"}

(***************************************************************************)
(* getBareSection (part_000:106-117)                                       *)
(***************************************************************************)
\* the token standing for the backtick character
Backtick == "backtick"

\* /^get |^set /
IsGetOrSet(title) ==
  StartsWith(title, <<"get", " ">>) \/ StartsWith(title, <<"set", " ">>)

\* /^[A-Z][A-Za-z]+\s*\(|^`|Record$/u
RECURSIVE SkipSpaces(_)
SkipSpaces(s) ==
  IF s # <<>> /\ Head(s) \in {" ", "\n"} THEN SkipSpaces(Tail(s)) ELSE s

IsAOorTypeDef(title) ==
  \/ /\ title # <<>>
     /\ Head(title) \in CapitalAlphaWords
     /\ StartsWith(SkipSpaces(Tail(title)), <<"(">>)
  \/ StartsWith(title, <<Backtick>>)
  \/ title # <<>> /\ title[Len(title)] \in RecordWords

getBareSectionThrows(section) ==
  ~ \/ \A i \in 1..Len(section.children) :
          /\ IsAOorTypeDef(section.children[i].title)
          /\ Len(section.children[i].children) = 0
    \/ Len(Filter(LAMBDA s : IsGetOrSet(s.title), section.children)) = 2

getBareSection(section) == section

(***************************************************************************)
(* getAttributes (part_000:176-193)                                        *)
(***************************************************************************)
\* $(`#${id} > p`): the direct paragraphs of the element with that id
ParagraphsOf(id) ==
  IF id \in DOMAIN doc.paras THEN doc.paras[id] ELSE <<>>

AttributeParas(s) == Filter(LAMBDA p : p.marker, ParagraphsOf(s.id))

getAttributesThrows(s) ==
  LET paras == AttributeParas(s)
  IN /\ Len(paras) # 0
     /\ \/ Len(paras) # 1
        \/ ~paras[1].template

\* getAttributes with the Writable and Enumerable groups exchanged
getAttributesSwapped(s) ==
  LET paras == AttributeParas(s)
  IN IF Len(paras) = 0 THEN nullAttributes
     ELSE (IF paras[1].enumerable = "true" THEN <<"w">> ELSE <<>>)
          \o (IF paras[1].writable = "true" THEN <<"e">> ELSE <<>>)
          \o (IF paras[1].configurable = "true" THEN <<"c">> ELSE <<>>)

getAttributes(s) ==
  LET paras == AttributeParas(s)
  IN IF Len(paras) = 0 THEN nullAttributes
     ELSE (IF paras[1].writable = "true" THEN <<"w">> ELSE <<>>)
          \o (IF paras[1].enumerable = "true" THEN <<"e">> ELSE <<>>)
          \o (IF paras[1].configurable = "true" THEN <<"c">> ELSE <<>>)

(***************************************************************************)
(* makeMethod, makeConstructor, makeProperty (part_000:132-174)            *)
(***************************************************************************)
makeMethodThrows(s) == getAttributesThrows(s) \/ parseParametersThrows(s.title)

\* `...(attributes ? { attributes } : undefined)`: null and "" are both falsy
makeMethod(s) ==
  LET attributes == getAttributes(s)
      parsed == parseParameters(s.title)
  IN IF attributes # nullAttributes /\ attributes # <<>>
     THEN [type |-> "method", name |-> parsed.name,
           parameters |-> parsed.parameters, attributes |-> attributes]
     ELSE [type |-> "method", name |-> parsed.name,
           parameters |-> parsed.parameters]

makeConstructorThrows(s) == s # undefined /\ parseParametersThrows(s.title)

makeConstructor(s) ==
  IF s = undefined THEN nullConstructor
  ELSE LET parsed == parseParameters(s.title)
       IN [type |-> "constructor", name |-> parsed.name,
           parameters |-> parsed.parameters]

IsAccessorPair(s) ==
  Len(Filter(LAMBDA t : IsGetOrSet(t.title), s.children)) = 2

makePropertyThrows(s) ==
  ~IsAccessorPair(s) /\ ~IsGetOrSet(s.title) /\ getAttributesThrows(s)

makeProperty(s) ==
  LET attributes == getAttributes(s) IN
  IF IsAccessorPair(s)
  THEN [type |-> "accessor-property",
        name |-> ReplaceAll(s.title, <<" ">>, <<>>),
        attributes |-> <<"g", "s", "c">>]
  ELSE IF IsGetOrSet(s.title)
  THEN [type |-> "accessor-property",
        name |-> ReplaceAll(Drop(s.title, 2), <<" ">>, <<>>),
        attributes |->
          (IF StartsWith(s.title, <<"get", " ">>) THEN <<"g">> ELSE <<>>)
          \o (IF StartsWith(s.title, <<"set", " ">>) THEN <<"s">> ELSE <<>>)
          \o <<"c">>]
  ELSE [type |-> "data-property",
        name |-> ReplaceAll(s.title, <<" ">>, <<>>),
        attributes |-> IF attributes = nullAttributes
                       THEN <<"w", "c">> ELSE attributes]

(***************************************************************************)
(* Titles the pipeline compares against                                    *)
(***************************************************************************)
FundamentalObjects == Sp(<<"Fundamental", "Objects">>)
Reflection == <<"Reflection">>
ErrorObjects == Sp(<<"Error", "Objects">>)
PropertiesOfErrorInstances == Sp(<<"Properties", "of", "Error", "Instances">>)
NativeErrorTypes ==
  Sp(<<"Native", "Error", "Types", "Used", "in", "This", "Standard">>)
NativeErrorStructure == Sp(<<"_NativeError_", "Object", "Structure">>)
TypedArrayObjects == Sp(<<"TypedArray", "Objects">>)
AbstractOperationsForTA ==
  Sp(<<"Abstract", "Operations", "for", "TypedArray", "Objects">>)
TypedArrayTemplate == <<"_TypedArray_">>
ObjectObjects == Sp(<<"Object", "Objects">>)
PropertiesOfObjectPrototype ==
  Sp(<<"Properties", "of", "the", "Object", "Prototype", "Object">>)
LegacyAccessorMethods ==
  Sp(<<"Legacy", "Object.prototype", "Accessor", "Methods">>)
Iteration == <<"Iteration">>
IteratorPrototypeObject == Sp(<<"The", "%IteratorPrototype%", "Object">>)
AsyncIteratorPrototypeObject ==
  Sp(<<"The", "%AsyncIteratorPrototype%", "Object">>)
ModuleNamespaceObjects == Sp(<<"Module", "Namespace", "Objects">>)
TheGlobalObject == Sp(<<"The", "Global", "Object">>)
ValuePropertiesOfGlobal ==
  Sp(<<"Value", "Properties", "of", "the", "Global", "Object">>)
FunctionPropertiesOfGlobal ==
  Sp(<<"Function", "Properties", "of", "the", "Global", "Object">>)
ConstructorPropertiesOfGlobal ==
  Sp(<<"Constructor", "Properties", "of", "the", "Global", "Object">>)
OtherPropertiesOfGlobal ==
  Sp(<<"Other", "Properties", "of", "the", "Global", "Object">>)
URIHandlingFunctions == Sp(<<"URI", "Handling", "Functions">>)
\* " ( . . . )"
EllipsisSuffix == <<" ">> \o Sp(<<"(", ".", ".", ".", ")">>)

(***************************************************************************)
(* Section Reclassifier (part_000:197-267)                                 *)
(***************************************************************************)
\* toc.slice(findIndex(Fundamental Objects), findIndex(Reflection) + 1)
\*    .flatMap((s) => s.children)
ObjectChapters(t) ==
  Slice(t, FindIndex(LAMBDA s : s.title = FundamentalObjects, t),
           FindIndex(LAMBDA s : s.title = Reflection, t) + 1)

ObjectGroups(t) == Flat(Map(LAMBDA s : s.children, ObjectChapters(t)))

\* the slice taken to the end of the children instead of slice(endOfError, -1)
ErrorSubItemsToEnd(s) ==
  Slice(s.children,
        FindIndex(LAMBDA t : t.title = PropertiesOfErrorInstances, s.children) + 1,
        Len(s.children))

\* part_000:204-221
ErrorSubItems(s) ==
  Slice(s.children,
        FindIndex(LAMBDA t : t.title = PropertiesOfErrorInstances, s.children) + 1,
        -1)

RewriteErrorThrows(s) ==
  LET subItems == ErrorSubItems(s)
  IN \/ Len(subItems) < 1
     \/ subItems[1].title # NativeErrorTypes
     \/ Len(subItems) < 2
     \/ subItems[2].title # NativeErrorStructure

RewriteError(s) ==
  LET endOfError ==
        FindIndex(LAMBDA t : t.title = PropertiesOfErrorInstances, s.children) + 1
      subItems == ErrorSubItems(s)
  IN <<[title |-> s.title, id |-> s.id,
        children |-> Slice(s.children, 0, endOfError)],
       subItems[2]>> \o Drop(subItems, 2)

\* part_000:222-234
RewriteTypedArray(s) ==
  LET endOfTA ==
        FindIndex(LAMBDA t : t.title = AbstractOperationsForTA, s.children) + 1
  IN <<[title |-> s.title, id |-> s.id,
        children |-> Slice(s.children, 0, endOfTA)],
       [title |-> TypedArrayTemplate, id |-> s.id,
        children |-> Drop(s.children, endOfTA)]>>

\* part_000:235-254
RewriteObjectThrows(s) ==
  FindIndex(LAMBDA t : t.title = PropertiesOfObjectPrototype, s.children) = -1

RewriteObject(s) ==
  LET prototypeProps ==
        FindIndex(LAMBDA t : t.title = PropertiesOfObjectPrototype, s.children)
      prototypePropsSection == s.children[prototypeProps + 1]
      flattened ==
        Flat(Map(LAMBDA t : IF t.title = LegacyAccessorMethods
                            THEN t.children ELSE <<t>>,
                 prototypePropsSection.children))
  IN <<[title |-> s.title,
        children |->
          Take(s.children, prototypeProps)
          \o <<[title |-> prototypePropsSection.title,
                id |-> prototypePropsSection.id,
                children |-> flattened]>>
          \o Drop(s.children, prototypeProps + 1)]>>

\* part_000:255-261
RewriteIteration(s) ==
  <<Find(LAMBDA t : t.title = IteratorPrototypeObject, s.children),
    Find(LAMBDA t : t.title = AsyncIteratorPrototypeObject, s.children)>>

RewriteGroupThrows(s) ==
  \/ s.title = ErrorObjects /\ RewriteErrorThrows(s)
  \/ s.title = ObjectObjects /\ RewriteObjectThrows(s)

RewriteGroup(s) ==
  IF s.title = ErrorObjects THEN RewriteError(s)
  ELSE IF s.title = TypedArrayObjects THEN RewriteTypedArray(s)
  ELSE IF s.title = ObjectObjects THEN RewriteObject(s)
  ELSE IF s.title = Iteration THEN RewriteIteration(s)
  ELSE IF s.title = ModuleNamespaceObjects THEN <<>>
  ELSE <<s>>

ReclassifyThrows(t) ==
  LET gs == ObjectGroups(t)
  IN \E i \in 1..Len(gs) : RewriteGroupThrows(gs[i])

Reclassified(t) == Flat(Map(RewriteGroup, ObjectGroups(t)))

(***************************************************************************)
(* Global Binding Assembler (part_000:268-333)                             *)
(***************************************************************************)
\* p occurs in s at position i, the last token of p matched as a word prefix
OccursAtWord(s, p, i) ==
  /\ i >= 1
  /\ i + Len(p) - 1 <= Len(s)
  /\ \A j \in 1..(Len(p) - 1) : s[i + j - 1] = p[j]
  /\ StartsWithWord(s[i + Len(p) - 1], p[Len(p)])

\* the regular expression  pre.*post  tested anywhere in the title
MatchesGap(title, pre, post) ==
  LET i == IndexOf(title, pre)
  IN i # 0 /\ \E j \in (i + Len(pre))..Len(title) : OccursAtWord(title, post, j)

PropertiesOf == <<"Properties", " ", "of", " ">>
IsValuePropertiesOf(title) == Includes(title, Sp(<<"Value", "Properties", "of">>))
IsFunctionPropertiesOf(title) ==
  Includes(title, Sp(<<"Function", "Properties", "of">>))
IsPropertiesOfConstructor(title) ==
  MatchesGap(title, PropertiesOf, <<" ", "Constructor">>)
IsPropertiesOfInstances(title) ==
  MatchesGap(title, PropertiesOf, <<" ", "Instances">>)
IsPropertiesOfPrototype(title) ==
  MatchesGap(title, PropertiesOf, <<" ", "Prototype", " ", "Object">>)
IsTheConstructor(title) ==
  MatchesGap(title, <<"The", " ">>, <<" ", "Constructor">>)

EndsWithParen(title) == EndsWith(title, <<")">>)

\* children.find((c) => pattern.test(c.title))?.children.map(getBareSection) ?? []
getSubsections(children, Pattern(_)) ==
  LET c == Find(LAMBDA x : Pattern(x.title), children)
  IN IF c = undefined THEN <<>> ELSE c.children

getSubsectionsThrows(children, Pattern(_)) ==
  LET secs == getSubsections(children, Pattern)
  IN \E i \in 1..Len(secs) : getBareSectionThrows(secs[i])

\* title.replace(/^The | Object$/gu, "")
NamespaceName(title) ==
  LET t1 == IF StartsWith(title, <<"The", " ">>) THEN Drop(title, 2) ELSE title
  IN IF EndsWith(t1, <<" ", "Object">>) THEN Take(t1, Len(t1) - 2) ELSE t1

\* title.replace(/ Objects| \(.*\)/gu, "")
RECURSIVE ClassName(_)
ClassName(title) ==
  IF title = <<>> THEN <<>>
  ELSE IF StartsWith(title, <<" ", "Objects">>) THEN ClassName(Drop(title, 2))
  ELSE IF StartsWith(title, <<" ", "(">>) /\ ")" \in Range(Drop(title, 2))
       THEN ClassName(Drop(title, LastIndex(title, ")")))
  ELSE <<Head(title)>> \o ClassName(Tail(title))

\* part_000:277-298
NamespaceSections(children) ==
  LET valueSecs == getSubsections(children, IsValuePropertiesOf)
      functionSecs == getSubsections(children, IsFunctionPropertiesOf)
  IN IF Len(valueSecs) = 0 /\ Len(functionSecs) = 0
     THEN [props |-> Filter(LAMBDA p : ~EndsWithParen(p.title), children),
           methods |-> Filter(LAMBDA p : EndsWithParen(p.title), children)]
     ELSE [props |-> valueSecs, methods |-> functionSecs]

AssembleNamespaceThrows(title, children) ==
  LET valueSecs == getSubsections(children, IsValuePropertiesOf)
      functionSecs == getSubsections(children, IsFunctionPropertiesOf)
      secs == NamespaceSections(children)
  IN \/ getSubsectionsThrows(children, IsValuePropertiesOf)
     \/ getSubsectionsThrows(children, IsFunctionPropertiesOf)
     \/ \E i \in 1..Len(valueSecs) : EndsWithParen(valueSecs[i].title)
     \/ \E i \in 1..Len(functionSecs) : ~EndsWithParen(functionSecs[i].title)
     \/ /\ Len(valueSecs) = 0 /\ Len(functionSecs) = 0
        /\ \E i \in 1..Len(children) : getBareSectionThrows(children[i])
     \/ \E i \in 1..Len(secs.props) : makePropertyThrows(secs.props[i])
     \/ \E i \in 1..Len(secs.methods) : makeMethodThrows(secs.methods[i])

AssembleNamespace(title, children) ==
  LET secs == NamespaceSections(children)
  IN [type |-> "namespace",
      name |-> NamespaceName(title),
      global |-> FALSE,
      staticProperties |-> Map(makeProperty, secs.props),
      staticMethods |-> Map(makeMethod, secs.methods)]

\* part_000:299-332
ctorSectionOf(children) ==
  LET c == Find(LAMBDA x : IsTheConstructor(x.title), children)
  IN IF c = undefined \/ Len(c.children) = 0 THEN undefined ELSE c.children[1]

\* makeProperties(sections, method)
makePropertiesOf(sections) ==
  Map(makeProperty, Filter(LAMBDA p : ~EndsWithParen(p.title), sections))
makeMethodsOf(sections) ==
  Map(makeMethod, Filter(LAMBDA p : EndsWithParen(p.title), sections))
makePropertiesThrows(sections) ==
  \E i \in 1..Len(sections) :
    IF EndsWithParen(sections[i].title)
    THEN makeMethodThrows(sections[i]) ELSE makePropertyThrows(sections[i])

AssembleClassThrows(title, children) ==
  LET staticPropSecs == getSubsections(children, IsPropertiesOfConstructor)
      instancePropSecs == getSubsections(children, IsPropertiesOfInstances)
      protoPropSecs == getSubsections(children, IsPropertiesOfPrototype)
      ctorSection == ctorSectionOf(children)
  IN \/ getSubsectionsThrows(children, IsPropertiesOfConstructor)
     \/ getSubsectionsThrows(children, IsPropertiesOfInstances)
     \/ getSubsectionsThrows(children, IsPropertiesOfPrototype)
     \/ ctorSection # undefined /\ ~EndsWithParen(ctorSection.title)
     \/ \E i \in 1..Len(instancePropSecs) : EndsWithParen(instancePropSecs[i].title)
     \/ makePropertiesThrows(staticPropSecs)
     \/ makePropertiesThrows(protoPropSecs)
     \/ \E i \in 1..Len(instancePropSecs) : makePropertyThrows(instancePropSecs[i])
     \/ makeConstructorThrows(ctorSection)

AssembleClass(title, children) ==
  LET staticPropSecs == getSubsections(children, IsPropertiesOfConstructor)
      instancePropSecs == getSubsections(children, IsPropertiesOfInstances)
      protoPropSecs == getSubsections(children, IsPropertiesOfPrototype)
  IN [type |-> "class",
      name |-> ClassName(title),
      global |-> FALSE,
      constructor |-> makeConstructor(ctorSectionOf(children)),
      staticProperties |-> makePropertiesOf(staticPropSecs),
      staticMethods |-> makeMethodsOf(staticPropSecs),
      prototypeProperties |-> makePropertiesOf(protoPropSecs),
      instanceMethods |-> makeMethodsOf(protoPropSecs),
      instanceProperties |-> Map(makeProperty, instancePropSecs)]

\* .map(({ title, children }): JSGlobal => ...)
AssembleThrows(g) ==
  \/ g = undefined
  \/ g # undefined /\
       IF EndsWith(g.title, <<"Object">>)
       THEN AssembleNamespaceThrows(g.title, g.children)
       ELSE AssembleClassThrows(g.title, g.children)

Assemble(g) ==
  IF EndsWith(g.title, <<"Object">>)
  THEN AssembleNamespace(g.title, g.children)
  ELSE AssembleClass(g.title, g.children)

(***************************************************************************)
(* Abstract Class Expander (part_000:334-368)                              *)
(***************************************************************************)
typedArrayTypes == Map(LAMBDA d : ReplaceAll(d, <<"%">>, <<>>), doc.typedArrayDfns)
errorTypes == Map(LAMBDA d : ReplaceAll(d, <<"%">>, <<>>), doc.errorDfns)

expandSection(p, abstractName, name) ==
  IF p = nullConstructor THEN nullConstructor
  ELSE [p EXCEPT !.name = ReplaceFirst(p.name, <<abstractName>>, name)]

expandAbstractClass(s, abstractName, name) ==
  [type |-> "class",
   name |-> name,
   global |-> s.global,
   constructor |-> expandSection(s.constructor, abstractName, name),
   staticProperties |->
     Map(LAMBDA p : expandSection(p, abstractName, name), s.staticProperties),
   staticMethods |->
     Map(LAMBDA p : expandSection(p, abstractName, name), s.staticMethods),
   prototypeProperties |->
     Map(LAMBDA p : expandSection(p, abstractName, name), s.prototypeProperties),
   instanceMethods |->
     Map(LAMBDA p : expandSection(p, abstractName, name), s.instanceMethods),
   instanceProperties |-> s.instanceProperties]

ExpandOne(s) ==
  IF s.type # "class" THEN <<s>>
  ELSE IF s.name = TypedArrayTemplate
       THEN Map(LAMBDA t : expandAbstractClass(s, "_TypedArray_", t), typedArrayTypes)
  ELSE IF s.name = NativeErrorStructure
       THEN Map(LAMBDA t : expandAbstractClass(s, "_NativeError_", t), errorTypes)
  ELSE <<s>>

Expanded(a) == Flat(Map(ExpandOne, a))

(***************************************************************************)
(* Global Flag Propagator (part_000:370-416)                               *)
(***************************************************************************)
\* toc.find((s) => s.title === "The Global Object")!.children
globalsThrows(t) == Find(LAMBDA s : s.title = TheGlobalObject, t) = undefined
globals(t) == Find(LAMBDA s : s.title = TheGlobalObject, t).children

\* part_000:371-378
GlobalsAssertFails(t) ==
  ~ /\ Len(globals(t)) = 4
    /\ globals(t)[1].title = ValuePropertiesOfGlobal
    /\ globals(t)[2].title = FunctionPropertiesOfGlobal
    /\ globals(t)[3].title = ConstructorPropertiesOfGlobal
    /\ globals(t)[4].title = OtherPropertiesOfGlobal

\* part_000:380-387
makeGlobalProperty(s) ==
  [type |-> "global-property",
   name |-> getBareSection(s).title,
   attributes |-> getAttributes(getBareSection(s))]

\* part_000:388-403
FunctionSections(s) ==
  IF s.title = URIHandlingFunctions
  THEN Filter(LAMBDA t : ~(t.title # <<>> /\ Head(t.title) \in CapitalWords),
              s.children)
  ELSE <<s>>

makeFunction(t) ==
  LET parsed == parseParameters(getBareSection(t).title)
  IN [type |-> "function",
      name |-> parsed.name,
      parameters |-> parsed.parameters,
      global |-> TRUE]

GlobalFunctionSections(t) == Flat(Map(FunctionSections, globals(t)[2].children))

AppendGlobalsThrows(t) ==
  LET values == globals(t)[1].children
      functions == GlobalFunctionSections(t)
  IN \/ \E i \in 1..Len(values) :
          getBareSectionThrows(values[i]) \/ getAttributesThrows(values[i])
     \/ \E i \in 1..Len(functions) :
          \/ getBareSectionThrows(functions[i])
          \/ parseParametersThrows(functions[i].title)

AppendedGlobals(t) ==
  Map(makeGlobalProperty, globals(t)[1].children)
  \o Map(makeFunction, GlobalFunctionSections(t))

\* part_000:405-416: one iteration of either forEach
MatchIndex(objs, title) == FindIndex(LAMBDA o : o.name = title, objs)

\* the assertion reduced to "an object of that name exists"
FlagAssertFailsAnyType(objs, title, type) == MatchIndex(objs, title) = -1

FlagAssertFails(objs, title, type) ==
  \/ MatchIndex(objs, title) = -1
  \/ objs[MatchIndex(objs, title) + 1].type # type

\* the flag set on every descriptor that has one
SetGlobalEverywhere(objs, title) ==
  [i \in 1..Len(objs) |->
     IF "global" \in DOMAIN objs[i] THEN [objs[i] EXCEPT !.global = TRUE]
     ELSE objs[i]]

SetGlobal(objs, title) ==
  [objs EXCEPT ![MatchIndex(objs, title) + 1].global = TRUE]

RECURSIVE FlagAll(_, _)
FlagAll(objs, titles) ==
  IF titles = <<>> THEN objs
  ELSE FlagAll(SetGlobal(objs, Head(titles)), Tail(titles))

ConstructorTitles(t) ==
  Map(LAMBDA s : ReplaceFirst(getBareSection(s).title, EllipsisSuffix, <<>>),
      globals(t)[3].children)
OtherTitles(t) == Map(LAMBDA s : getBareSection(s).title, globals(t)[4].children)

FlagThrows(objs, sections, titles, type) ==
  \/ \E i \in 1..Len(sections) : getBareSectionThrows(sections[i])
  \/ \E i \in 1..Len(titles) : FlagAssertFails(objs, titles[i], type)

(***************************************************************************)
(* buildTOC (part_000:89-104)                                              *)
(***************************************************************************)
\* .replace(/[\s\n]+/gu, " ").trim()
RECURSIVE CollapseSpaces(_)
CollapseSpaces(s) ==
  IF s = <<>> THEN <<>>
  ELSE IF Head(s) \in {" ", "\n"}
       THEN <<" ">> \o CollapseSpaces(SkipSpaces(s))
       ELSE <<Head(s)>> \o CollapseSpaces(Tail(s))

Trim(s) ==
  LET t == SkipSpaces(s)
  IN IF t # <<>> /\ t[Len(t)] = " " THEN Take(t, Len(t) - 1) ELSE t

RECURSIVE buildTOC(_)
buildTOC(clauses) ==
  IF clauses = <<>> THEN <<>>
  ELSE <<[title |-> Trim(CollapseSpaces(Head(clauses).h1)),
          id |-> Head(clauses).id,
          children |-> buildTOC(Head(clauses).children)]>>
       \o buildTOC(Tail(clauses))

(***************************************************************************)
(* Input documents.  A document is the clause tree of spec.html (h1 text,  *)
(* id, nested clauses), the direct paragraphs of each clause and the two   *)
(* dfn lists.  The documents checked are a baseline shaped like the real   *)
(* specification and every document that deviates from it in at most       *)
(* MaxDeviations of the places listed in Alternatives.                     *)
(***************************************************************************)
MaxDeviations == 2
MaxTypes == 2

Clause(h1, id, children) == [h1 |-> h1, id |-> id, children |-> children]
Leaf(h1, id) == [h1 |-> h1, id |-> id, children |-> <<>>]

\* "name ( p1, p2 )" as the specification writes a signature
RECURSIVE JoinParams(_)
JoinParams(ps) ==
  IF ps = <<>> THEN <<>>
  ELSE IF Len(ps) = 1 THEN ps[1]
  ELSE ps[1] \o <<",", " ">> \o JoinParams(Tail(ps))
Call(name, ps) ==
  name \o <<" ", "(", " ">> \o JoinParams(ps)
       \o (IF ps = <<>> THEN <<>> ELSE <<" ">>) \o <<")">>

\* paragraphs: marker = the text includes "has the attributes";
\* template = it matches the full sentence of part_000:188
Prose == [marker |-> FALSE, template |-> FALSE,
          writable |-> "false", enumerable |-> "false", configurable |-> "false"]
Attrs(w, e, c) == [marker |-> TRUE, template |-> TRUE,
                   writable |-> w, enumerable |-> e, configurable |-> c]
OtherAttrs == [marker |-> TRUE, template |-> FALSE,
               writable |-> "false", enumerable |-> "false", configurable |-> "false"]

Knobs == {"fund", "refl", "gshape", "value", "ctor", "other", "obj", "err",
          "ta", "double", "iter", "method", "inst", "taTypes", "errTypes"}
\* number of non-baseline alternatives of each place (the two dfn lists are
\* drawn from TypeLists instead)
Alternatives ==
  [k \in Knobs |->
     CASE k = "gshape" -> 3 [] k = "value" -> 3 [] k = "ctor" -> 4
       [] k = "other" -> 3 [] k = "err" -> 6 [] k = "method" -> 2
       [] OTHER -> 1]

TypedArrayNames == {"Int8Array", "Uint8Array"}
ErrorNames == {"RangeError", "TypeError"}
TypeLists(names) == UNION {[1..n -> names] : n \in 0..MaxTypes}
Dfn(name) == <<"%", name, "%">>
BaselineTypedArrays == <<"Int8Array", "Uint8Array">>
BaselineErrors == <<"RangeError", "TypeError">>

Ellipsis(name) == <<name>> \o EllipsisSuffix

GlobalObjectClause(k) ==
  LET value ==
        Clause(ValuePropertiesOfGlobal, "sec-value-properties-of-the-global-object",
          IF k.gshape = 3 THEN <<>>
          ELSE <<Leaf(<<"globalThis">>, "sec-globalthis"),
                 Leaf(<<"NaN">>, "sec-value-properties-of-the-global-object-nan")>>)
      function ==
        Clause(FunctionPropertiesOfGlobal, "sec-function-properties-of-the-global-object",
          IF k.gshape = 3 THEN <<>>
          ELSE <<Leaf(Call(<<"eval">>, <<<<"x">>>>), "sec-eval-x"),
                 Clause(URIHandlingFunctions, "sec-uri-handling-functions",
                   <<Leaf(Call(<<"decodeURI">>, <<<<"encodedURI">>>>), "sec-decodeuri"),
                     Leaf(Call(<<"Encode">>, <<<<"string">>, <<"extraUnescaped">>>>),
                          "sec-encode")>>)>>)
      ctor ==
        Clause(ConstructorPropertiesOfGlobal, "sec-constructor-properties-of-the-global-object",
          IF k.gshape = 3 \/ k.ctor = 2 THEN <<>>
          ELSE <<Leaf(Ellipsis("Object"), "sec-constructor-properties-of-the-global-object-object"),
                 Leaf(Ellipsis("Int8Array"), "sec-constructor-properties-of-the-global-object-int8array"),
                 Leaf(Ellipsis("RangeError"), "sec-constructor-properties-of-the-global-object-rangeerror")>>
               \o (CASE k.ctor = 1 -> <<Leaf(Ellipsis("Foo"), "sec-constructor-properties-of-the-global-object-foo")>>
                     [] k.ctor = 3 -> <<Leaf(Ellipsis("Math"), "sec-constructor-properties-of-the-global-object-math")>>
                     [] k.ctor = 4 -> <<Leaf(Ellipsis("Object"), "sec-constructor-properties-of-the-global-object-object-2")>>
                     [] OTHER -> <<>>))
      other ==
        Clause(OtherPropertiesOfGlobal, "sec-other-properties-of-the-global-object",
          IF k.gshape = 3 \/ k.other = 2 THEN <<>>
          ELSE <<Leaf(<<"Math">>, "sec-math"), Leaf(<<"Reflect">>, "sec-reflect")>>
               \o (CASE k.other = 1 -> <<Leaf(<<"Atomics">>, "sec-atomics")>>
                     [] k.other = 3 -> <<Leaf(<<"Object">>, "sec-other-object")>>
                     [] OTHER -> <<>>))
  IN Clause(<<" ", "The", " ", "\n", "Global", " ", "Object", "\n">>,
            "sec-global-object",
            CASE k.gshape = 1 -> <<value, function, ctor>>
              [] k.gshape = 2 -> <<function, value, ctor, other>>
              [] OTHER -> <<value, function, ctor, other>>)

ObjectObjectsClause(k) ==
  Clause(ObjectObjects, "sec-object-objects",
    <<Clause(Sp(<<"The", "Object", "Constructor">>), "sec-object-constructor",
        <<Leaf(Call(<<"Object">>, <<<<"[", " ", "value", " ", "]">>>>), "sec-object-value")>>),
      Clause(Sp(<<"Properties", "of", "the", "Object", "Constructor">>),
             "sec-properties-of-the-object-constructor",
        <<Leaf(Call(<<"Object.assign">>, <<<<"target">>, <<"...", "sources">>>>),
               "sec-object.assign"),
          Leaf(<<"Object.prototype">>, "sec-object.prototype")>>)>>
    \o (IF k.obj = 1 THEN <<>>
        ELSE <<Clause(PropertiesOfObjectPrototype,
                      "sec-properties-of-the-object-prototype-object",
                 <<Leaf(<<"Object.prototype.constructor">>, "sec-object.prototype.constructor"),
                   Leaf(Call(<<"Object.prototype.valueOf">>, <<>>), "sec-object.prototype.valueof"),
                   Clause(<<"Object.prototype.__proto__">>, "sec-object.prototype.__proto__",
                     <<Leaf(Sp(<<"get", "Object.prototype.__proto__">>), "sec-get-object.prototype.__proto__"),
                       Leaf(Sp(<<"set", "Object.prototype.__proto__">>), "sec-set-object.prototype.__proto__")>>),
                   Clause(LegacyAccessorMethods, "sec-object.prototype-legacy-accessor-methods",
                     <<Leaf(Call(<<"Object.prototype.__defineGetter__">>, <<<<"P">>, <<"getter">>>>),
                            "sec-object.prototype.__defineGetter__")>>)>>)>>)
    \o <<Clause(Sp(<<"Properties", "of", "Object", "Instances">>),
                "sec-properties-of-object-instances",
           IF k.inst = 1
           THEN <<Leaf(<<"Object.prototype.constructor">>, "sec-object-instances-constructor")>>
           ELSE <<>>)>>)

ErrorObjectsClause(k) ==
  LET ctor == Clause(Sp(<<"The", "Error", "Constructor">>), "sec-error-constructor",
                <<Leaf(Call(<<"Error">>, <<<<"message", " ", "[", " ">>, <<"options", " ", "]">>>>),
                       "sec-error-message")>>)
      pei == Clause(PropertiesOfErrorInstances, "sec-properties-of-error-instances", <<>>)
      nat == Clause(NativeErrorTypes, "sec-native-error-types-used-in-this-standard",
               <<Leaf(<<"RangeError">>, "sec-native-error-types-used-in-this-standard-rangeerror"),
                 Leaf(<<"TypeError">>, "sec-native-error-types-used-in-this-standard-typeerror")>>)
      struct ==
        Clause(NativeErrorStructure, "sec-nativeerror-object-structure",
          <<Clause(Sp(<<"The", "_NativeError_", "Constructors">>), "sec-nativeerror-constructors",
              <<Leaf(Call(<<"_NativeError_">>, <<<<"message", " ", "[", " ">>, <<"options", " ", "]">>>>),
                     "sec-nativeerror")>>),
            Clause(Sp(<<"Properties", "of", "the", "_NativeError_", "Constructors">>),
                   "sec-properties-of-the-nativeerror-constructors",
              <<Leaf(<<"_NativeError_", ".prototype">>, "sec-nativeerror.prototype")>>),
            Clause(Sp(<<"Properties", "of", "the", "_NativeError_", "Prototype", "Objects">>),
                   "sec-properties-of-the-nativeerror-prototype-objects",
              <<Leaf(<<"_NativeError_", ".prototype.message">>, "sec-nativeerror.prototype.message")>>),
            Clause(Sp(<<"Properties", "of", "_NativeError_", "Instances">>),
                   "sec-properties-of-nativeerror-instances", <<>>)>>)
      agg == Clause(Sp(<<"AggregateError", "Objects">>), "sec-aggregate-error-objects",
               <<Clause(Sp(<<"The", "AggregateError", "Constructor">>), "sec-aggregate-error-constructor",
                   <<Leaf(Call(<<"AggregateError">>, <<<<"errors">>, <<"message">>>>),
                          "sec-aggregate-error")>>)>>)
      ops == Clause(Sp(<<"Abstract", "Operations", "for", "Error", "Objects">>),
                    "sec-abstract-operations-for-error-objects", <<>>)
  IN Clause(ErrorObjects, "sec-error-objects",
       CASE k.err = 1 -> <<ctor, nat, struct, agg, ops>>
         [] k.err = 2 -> <<nat, struct, agg, ops>>
         [] k.err = 3 -> <<ctor, pei, nat, struct, agg>>
         [] k.err = 4 -> <<ctor, pei>>
         [] k.err = 5 -> <<ctor, pei, nat, struct>>
         [] k.err = 6 -> <<ctor, pei, nat, struct, ops>>
         [] OTHER -> <<ctor, pei, nat, struct, agg, ops>>)

MathObjectClause(k) ==
  Clause(Sp(<<"The", "Math", "Object">>), "sec-math-object",
    <<Clause(Sp(<<"Value", "Properties", "of", "the", "Math", "Object">>),
             "sec-value-properties-of-the-math-object",
        <<Leaf(<<"Math.PI">>, "sec-math.pi")>>),
      Clause(Sp(<<"Function", "Properties", "of", "the", "Math", "Object">>),
             "sec-function-properties-of-the-math-object",
        <<Leaf(Call(<<"Math.abs">>, <<<<"x">>>>), "sec-math.abs")>>)>>)

TypedArrayObjectsClause(k) ==
  Clause(TypedArrayObjects, "sec-typedarray-objects",
    <<Clause(Sp(<<"Properties", "of", "the", "%TypedArray%", "Prototype", "Object">>),
             "sec-properties-of-the-%typedarrayprototype%-object",
        <<Leaf(Sp(<<"get", "%TypedArray%.prototype.length">>),
               "sec-get-%typedarray%.prototype.length")>>)>>
    \o (IF k.ta = 1 THEN <<>>
        ELSE <<Clause(AbstractOperationsForTA, "sec-abstract-operations-for-typedarray-objects", <<>>)>>)
    \o <<Clause(Sp(<<"The", "_TypedArray_", "Constructors">>), "sec-typedarray-constructors",
           <<Leaf(Call(<<"_TypedArray_">>, <<<<"...", "args">>>>), "sec-typedarray")>>),
         Clause(Sp(<<"Properties", "of", "the", "_TypedArray_", "Constructors">>),
                "sec-properties-of-the-typedarray-constructors",
           <<Leaf(<<"_TypedArray_", ".BYTES_PER_ELEMENT">>, "sec-typedarray.bytes_per_element")>>
           \o (IF k.double = 1
               THEN <<Leaf(<<"_TypedArray_", ".is", "_TypedArray_">>, "sec-typedarray.istypedarray")>>
               ELSE <<>>)),
         Clause(Sp(<<"Properties", "of", "the", "_TypedArray_", "Prototype", "Objects">>),
                "sec-properties-of-typedarray-prototype-objects",
           <<Leaf(<<"_TypedArray_", ".prototype.constructor">>, "sec-typedarray.prototype.constructor")>>),
         Clause(Sp(<<"Properties", "of", "_TypedArray_", "Instances">>),
                "sec-properties-of-typedarray-instances", <<>>)>>)

IterationClause(k) ==
  Clause(Iteration, "sec-iteration",
    <<Clause(Sp(<<"Common", "Iteration", "Interfaces">>), "sec-common-iteration-interfaces", <<>>),
      Clause(IteratorPrototypeObject, "sec-%iteratorprototype%-object",
        <<Leaf(Call(<<"%IteratorPrototype%", " ", "[", " ", "@@iterator", " ", "]">>, <<>>),
               "sec-%iteratorprototype%-@@iterator")>>)>>
    \o (IF k.iter = 1 THEN <<>>
        ELSE <<Clause(AsyncIteratorPrototypeObject, "sec-asynciteratorprototype",
                 <<Leaf(Call(<<"%AsyncIteratorPrototype%", " ", "[", " ", "@@asyncIterator", " ", "]">>, <<>>),
                        "sec-asynciteratorprototype-asynciterator")>>)>>))

ReflectionClause(k) ==
  Clause(IF k.refl = 1 THEN <<"Reflective", " ", "Objects">> ELSE Reflection,
         "sec-reflection",
    <<Clause(Sp(<<"The", "Reflect", "Object">>), "sec-reflect-object",
        <<Leaf(Call(<<"Reflect.apply">>, <<<<"target">>, <<"thisArgument">>, <<"argumentsList">>>>),
               "sec-reflect.apply"),
          Leaf(Sp(<<"Reflect", "[", "@@toStringTag", "]">>), "sec-reflect-@@tostringtag")>>),
      Clause(ModuleNamespaceObjects, "sec-module-namespace-objects", <<>>)>>)

DocClauses(k) ==
  <<Clause(Sp(<<"Notational", "Conventions">>), "sec-notational-conventions", <<>>),
    GlobalObjectClause(k),
    Clause(IF k.fund = 1 THEN Sp(<<"Fundamental", "Types">>) ELSE FundamentalObjects,
           "sec-fundamental-objects",
           <<ObjectObjectsClause(k), ErrorObjectsClause(k)>>),
    Clause(Sp(<<"Numbers", "and", "Dates">>), "sec-numbers-and-dates",
           <<MathObjectClause(k)>>),
    Clause(Sp(<<"Indexed", "Collections">>), "sec-indexed-collections",
           <<TypedArrayObjectsClause(k)>>),
    Clause(Sp(<<"Control", "Abstraction", "Objects">>), "sec-control-abstraction-objects",
           <<IterationClause(k)>>),
    ReflectionClause(k),
    Clause(Sp(<<"Memory", "Model">>), "sec-memory-model", <<>>)>>

DocParas(k) ==
  ("sec-globalthis" :>
     (CASE k.value = 1 -> <<Prose>>
        [] k.value = 2 -> <<Attrs("true", "false", "true"), Attrs("true", "false", "true")>>
        [] k.value = 3 -> <<Prose, OtherAttrs>>
        [] OTHER -> <<Prose, Attrs("true", "false", "true")>>))
  @@ ("sec-value-properties-of-the-global-object-nan" :> <<Attrs("false", "false", "false")>>)
  @@ ("sec-object.prototype" :> <<Prose, Attrs("false", "false", "false")>>)
  @@ ("sec-object.prototype.constructor" :> <<Prose>>)
  @@ ("sec-math.pi" :> <<Attrs("false", "false", "false")>>)
  @@ ("sec-math.abs" :>
        (CASE k.method = 1 -> <<Attrs("true", "false", "true")>>
           [] k.method = 2 -> <<Attrs("false", "false", "false")>>
           [] OTHER -> <<Prose>>))
  @@ ("sec-typedarray.bytes_per_element" :> <<Attrs("false", "false", "false")>>)
  @@ ("sec-nativeerror.prototype" :> <<Attrs("false", "false", "false")>>)
  @@ ("sec-reflect-@@tostringtag" :> <<Attrs("false", "false", "true")>>)

MakeDoc(k, typedArrays, errors) ==
  [clauses |-> DocClauses(k),
   paras |-> DocParas(k),
   typedArrayDfns |-> Map(Dfn, typedArrays),
   errorDfns |-> Map(Dfn, errors)]

Baseline == [k \in Knobs |-> 0]

\* the knob settings that deviate from the baseline exactly in the places D
Settings(D) ==
  LET places == D \ {"taTypes", "errTypes"}
      choices == {f \in [places -> 1..6] : \A n \in places : f[n] <= Alternatives[n]}
  IN {[n \in Knobs |-> IF n \in places THEN f[n] ELSE 0] : f \in choices}

Documents ==
  UNION {
    UNION {
      {MakeDoc(k, ta, er) :
         ta \in (IF "taTypes" \in D
                 THEN TypeLists(TypedArrayNames) \ {BaselineTypedArrays}
                 ELSE {BaselineTypedArrays}),
         er \in (IF "errTypes" \in D
                 THEN TypeLists(ErrorNames) \ {BaselineErrors}
                 ELSE {BaselineErrors})}
      : k \in Settings(D)}
    : D \in {S \in SUBSET Knobs : Cardinality(S) <= MaxDeviations}}

(***************************************************************************)
(* The run: the top-level statements of part_000, in order                 *)
(***************************************************************************)
NoFile == [written |-> FALSE]
File(content) == [written |-> TRUE, content |-> content]

Init ==
  /\ pc = "buildTOC"
  /\ doc \in Documents
  /\ toc = <<>>
  /\ tocFile = NoFile
  /\ groups = <<>>
  /\ assembled = <<>>
  /\ objects = <<>>
  /\ dataFile = NoFile
  /\ input = <<>>
  /\ output = <<>>

\* part_000:195
BuildTOC ==
  /\ pc = "buildTOC"
  /\ toc' = buildTOC(doc.clauses)
  /\ pc' = "writeTOC"
  /\ UNCHANGED <<doc, tocFile, groups, assembled, objects, dataFile, input, output>>

\* part_000:196
WriteTOC ==
  /\ pc = "writeTOC"
  /\ tocFile' = File(toc)
  /\ pc' = "reclassify"
  /\ UNCHANGED <<doc, toc, groups, assembled, objects, dataFile, input, output>>

\* part_000:197-267
Reclassify ==
  /\ pc = "reclassify"
  /\ IF ReclassifyThrows(toc)
     THEN pc' = "aborted" /\ UNCHANGED groups
     ELSE pc' = "classify" /\ groups' = Reclassified(toc)
  /\ UNCHANGED <<doc, toc, tocFile, assembled, objects, dataFile, input, output>>

\* part_000:268-333
Classify ==
  /\ pc = "classify"
  /\ IF \E i \in 1..Len(groups) : AssembleThrows(groups[i])
     THEN pc' = "aborted" /\ UNCHANGED assembled
     ELSE pc' = "expand" /\ assembled' = Map(Assemble, groups)
  /\ UNCHANGED <<doc, toc, tocFile, groups, objects, dataFile, input, output>>

\* part_000:334-368
Expand ==
  /\ pc = "expand"
  /\ objects' = Expanded(assembled)
  /\ pc' = "checkGlobals"
  /\ UNCHANGED <<doc, toc, tocFile, groups, assembled, dataFile, input, output>>

\* part_000:370-378
CheckGlobals ==
  /\ pc = "checkGlobals"
  /\ pc' = IF globalsThrows(toc) \/ GlobalsAssertFails(toc)
           THEN "aborted" ELSE "appendGlobals"
  /\ UNCHANGED <<doc, toc, tocFile, groups, assembled, objects, dataFile, input, output>>

\* AppendGlobals with the catalog written right after the push
AppendGlobalsThenWrite ==
  /\ pc = "appendGlobals"
  /\ IF AppendGlobalsThrows(toc)
     THEN pc' = "aborted" /\ UNCHANGED <<objects, dataFile>>
     ELSE /\ pc' = "flagConstructors"
          /\ objects' = objects \o AppendedGlobals(toc)
          /\ dataFile' = File(objects')
  /\ UNCHANGED <<doc, toc, tocFile, groups, assembled, input, output>>

\* part_000:379-404
AppendGlobals ==
  /\ pc = "appendGlobals"
  /\ IF AppendGlobalsThrows(toc)
     THEN pc' = "aborted" /\ UNCHANGED objects
     ELSE pc' = "flagConstructors" /\ objects' = objects \o AppendedGlobals(toc)
  /\ UNCHANGED <<doc, toc, tocFile, groups, assembled, dataFile, input, output>>

\* the iterations of a forEach that complete before the first failing one
Completed(objs, sections, titles, type) ==
  IF FlagThrows(objs, sections, titles, type)
  THEN (CHOOSE i \in 1..Len(sections) :
          /\ getBareSectionThrows(sections[i]) \/ FlagAssertFails(objs, titles[i], type)
          /\ \A j \in 1..(i - 1) :
               ~getBareSectionThrows(sections[j]) /\ ~FlagAssertFails(objs, titles[j], type))
       - 1
  ELSE Len(sections)

\* part_000:405-410
FlagConstructors ==
  /\ pc = "flagConstructors"
  /\ LET sections == globals(toc)[3].children
         titles == ConstructorTitles(toc)
     IN /\ objects' = FlagAll(objects,
                          Take(titles, Completed(objects, sections, titles, "class")))
        /\ pc' = IF FlagThrows(objects, sections, titles, "class")
                 THEN "aborted" ELSE "flagOthers"
  /\ UNCHANGED <<doc, toc, tocFile, groups, assembled, dataFile, input, output>>

\* part_000:411-416
FlagOthers ==
  /\ pc = "flagOthers"
  /\ LET sections == globals(toc)[4].children
         titles == OtherTitles(toc)
     IN /\ objects' = FlagAll(objects,
                          Take(titles, Completed(objects, sections, titles, "namespace")))
        /\ pc' = IF FlagThrows(objects, sections, titles, "namespace")
                 THEN "aborted" ELSE "writeCatalog"
  /\ UNCHANGED <<doc, toc, tocFile, groups, assembled, dataFile, input, output>>

\* part_000:418-421
WriteCatalog ==
  /\ pc = "writeCatalog"
  /\ dataFile' = File(objects)
  /\ pc' = "done"
  /\ UNCHANGED <<doc, toc, tocFile, groups, assembled, objects, input, output>>

Next ==
  \/ BuildTOC
  \/ WriteTOC
  \/ Reclassify
  \/ Classify
  \/ Expand
  \/ CheckGlobals
  \/ AppendGlobals
  \/ FlagConstructors
  \/ FlagOthers
  \/ WriteCatalog

Spec == Init /\ [][Next]_vars

(***************************************************************************)
(* parseParameters on its own: the signatures Name(p1, ..., pn)            *)
(***************************************************************************)
ParameterKinds == {"required", "optional", "rest"}
KindLists ==
  {ks \in UNION {[1..n -> ParameterKinds] : n \in 0..MaxParams} :
     Cardinality({i \in DOMAIN ks : ks[i] = "rest"}) <= 1}
Signatures ==
  {[name |-> "Name", kinds |-> ks, spaced |-> b] : ks \in KindLists, b \in BOOLEAN}

\* the title of a signature: "Name(a, [b], ...c)" or, spaced as the
\* specification prints it, "Name ( a, [ b ], ...c )"
RenderParam(kind, spaced) ==
  CASE kind = "required" -> <<"a">>
    [] kind = "optional" -> IF spaced THEN <<"[", " ", "b", " ", "]">>
                            ELSE <<"[", "b", "]">>
    [] kind = "rest" -> <<"...", "c">>
RenderTitle(sig) ==
  LET ps == [i \in 1..Len(sig.kinds) |-> RenderParam(sig.kinds[i], sig.spaced)]
  IN IF sig.spaced THEN Call(<<sig.name>>, ps)
     ELSE <<sig.name, "(">> \o JoinParams(ps) \o <<")">>

EmptyDoc == [clauses |-> <<>>, paras |-> <<>>, typedArrayDfns |-> <<>>, errorDfns |-> <<>>]
Threw == [threw |-> TRUE]
Returned(v) == [threw |-> FALSE, value |-> v]

InitParse ==
  /\ pc = "parse"
  /\ input \in Signatures
  /\ output = <<>>
  /\ doc = EmptyDoc
  /\ toc = <<>>
  /\ tocFile = NoFile
  /\ groups = <<>>
  /\ assembled = <<>>
  /\ objects = <<>>
  /\ dataFile = NoFile

ParseTitle ==
  /\ pc = "parse"
  /\ output' = IF parseParametersThrows(RenderTitle(input)) THEN Threw
               ELSE Returned(parseParameters(RenderTitle(input)))
  /\ pc' = "parsed"
  /\ UNCHANGED <<doc, toc, tocFile, groups, assembled, objects, dataFile, input>>

NextParse == ParseTitle

SpecParse == InitParse /\ [][NextParse]_vars

(***************************************************************************)
(* getAttributes on its own: one element and its direct paragraphs         *)
(***************************************************************************)
MaxParas == 2

Flags == {"true", "false"}
ParagraphKinds ==
  {Prose, OtherAttrs} \cup {Attrs(w, e, c) : w \in Flags, e \in Flags, c \in Flags}
ParagraphLists == UNION {[1..n -> ParagraphKinds] : n \in 0..MaxParas}

InitAttributes ==
  /\ pc = "attributes"
  /\ input = [title |-> <<"NaN">>, id |-> "sec-nan", children |-> <<>>]
  /\ \E ps \in ParagraphLists :
       doc = [clauses |-> <<>>, paras |-> ("sec-nan" :> ps),
              typedArrayDfns |-> <<>>, errorDfns |-> <<>>]
  /\ output = <<>>
  /\ toc = <<>>
  /\ tocFile = NoFile
  /\ groups = <<>>
  /\ assembled = <<>>
  /\ objects = <<>>
  /\ dataFile = NoFile

ExtractAttributes ==
  /\ pc = "attributes"
  /\ output' = IF getAttributesThrows(input) THEN Threw
               ELSE Returned(getAttributes(input))
  /\ pc' = "extracted"
  /\ UNCHANGED <<doc, toc, tocFile, groups, assembled, objects, dataFile, input>>

NextAttributes == ExtractAttributes

SpecAttributes == InitAttributes /\ [][NextAttributes]_vars

(***************************************************************************)
(* Properties                                                              *)
(***************************************************************************)
Count(kinds, kind) == Cardinality({i \in DOMAIN kinds : kinds[i] = kind})

\* C1: for every title Name(p1, ..., pn), n >= 0, with k optional parameters
\* and at most one rest parameter, parseParameters returns the name "Name()"
\* and required = n - k - (1 if rest), optional = k, rest = (a rest parameter
\* is present), none of them negative; an empty list gives 0/0/false.
C1_ParametersCounted ==
  pc = "parsed" =>
    LET n == Len(input.kinds)
        k == Count(input.kinds, "optional")
        r == Count(input.kinds, "rest")
    IN output = Returned([name |-> <<input.name, "(", ")">>,
                          parameters |-> [required |-> n - k - r,
                                          optional |-> k,
                                          rest |-> r = 1]])

\* the same statement restricted to non-empty parameter lists
NonEmptyParametersCounted ==
  (pc = "parsed" /\ Len(input.kinds) > 0) =>
    LET n == Len(input.kinds)
        k == Count(input.kinds, "optional")
        r == Count(input.kinds, "rest")
    IN output = Returned([name |-> <<input.name, "(", ")">>,
                          parameters |-> [required |-> n - k - r,
                                          optional |-> k,
                                          rest |-> r = 1]])

\* the paragraphs of the element that contain "has the attributes"
MarkerParagraphs == SelectSeq(doc.paras[input.id], LAMBDA p : p.marker)
ExpectedCode(p) ==
  SelectSeq(<<"w", "e", "c">>,
            LAMBDA l : \/ l = "w" /\ p.writable = "true"
                       \/ l = "e" /\ p.enumerable = "true"
                       \/ l = "c" /\ p.configurable = "true")

\* C2: getAttributes returns null when the element has no direct paragraph
\* containing "has the attributes", aborts when it has more than one, and for
\* exactly one (declaring the three flags) returns the letters w, e, c of the
\* flags that are true, in that order.
C2_AttributesExtracted ==
  pc = "extracted" =>
    /\ Len(MarkerParagraphs) = 0 => output = Returned(nullAttributes)
    /\ Len(MarkerParagraphs) > 1 => output = Threw
    /\ (Len(MarkerParagraphs) = 1 /\ MarkerParagraphs[1].template) =>
         output = Returned(ExpectedCode(MarkerParagraphs[1]))

C2_Witness ==
  /\ pc = "extracted"
  /\ MarkerParagraphs = <<Attrs("true", "false", "true")>>
  /\ Len(doc.paras[input.id]) = 2
  /\ output = Returned(<<"w", "c">>)

GlobalChildren(n) == globals(toc)[n].children
ClassNamed(title) ==
  \E i \in 1..Len(objects) :
    objects[i].type = "class" /\ objects[i].name = title /\ objects[i].global
NamespaceNamed(title) ==
  \E i \in 1..Len(objects) :
    objects[i].type = "namespace" /\ objects[i].name = title /\ objects[i].global

\* C3: once the constructor-property loop has finished, every child of
\* "Constructor Properties of the Global Object" has a class descriptor of its
\* name (" ( . . . )" removed) with global = true, and once the other-property
\* loop has finished every child of "Other Properties of the Global Object"
\* has a namespace descriptor of its name with global = true; a run with an
\* unmatched child never gets that far.
C3_GlobalFlagsExhaustive ==
  /\ pc \in {"flagOthers", "writeCatalog", "done"} =>
       \A i \in 1..Len(GlobalChildren(3)) :
         ClassNamed(ReplaceFirst(GlobalChildren(3)[i].title, EllipsisSuffix, <<>>))
  /\ pc \in {"writeCatalog", "done"} =>
       \A i \in 1..Len(GlobalChildren(4)) :
         NamespaceNamed(GlobalChildren(4)[i].title)
  /\ pc = "done" => dataFile = File(objects)

C3_Witness ==
  /\ pc = "done"
  /\ Len(GlobalChildren(3)) = 3
  /\ Len(GlobalChildren(4)) = 2
  /\ ClassNamed(<<"Int8Array">>)
  /\ NamespaceNamed(<<"Reflect">>)

\* C4 as claimed: a run that aborts on an integrity violation has written
\* neither the TOC file nor the catalog file.
C4_NoOutputOnAbort ==
  pc = "aborted" => ~tocFile.written /\ ~dataFile.written

\* C4: a run that aborts on an integrity violation has not written the
\* catalog file; the TOC file has been written, with the unrestructured TOC.
C4_NoCatalogOnAbort ==
  /\ pc = "aborted" => tocFile = File(toc) /\ ~dataFile.written
  /\ dataFile.written => pc = "done"

C4_Witness ==
  /\ pc = "aborted"
  /\ objects # <<>>
  /\ ~globalsThrows(toc)
  /\ Len(globals(toc)) = 3
  /\ tocFile.written
  /\ ~dataFile.written

\* the expansion as claimed: every occurrence of the placeholder replaced
SubstituteAll(p, placeholder, name) ==
  IF p = nullConstructor THEN nullConstructor
  ELSE [p EXCEPT !.name = ReplaceAll(p.name, <<placeholder>>, name)]
ClaimedClass(s, placeholder, name) ==
  [s EXCEPT
     !.name = name,
     !.constructor = SubstituteAll(s.constructor, placeholder, name),
     !.staticProperties =
        Map(LAMBDA m : SubstituteAll(m, placeholder, name), s.staticProperties),
     !.staticMethods =
        Map(LAMBDA m : SubstituteAll(m, placeholder, name), s.staticMethods),
     !.prototypeProperties =
        Map(LAMBDA m : SubstituteAll(m, placeholder, name), s.prototypeProperties),
     !.instanceMethods =
        Map(LAMBDA m : SubstituteAll(m, placeholder, name), s.instanceMethods)]
ClaimedExpansion(s) ==
  IF s.type = "class" /\ s.name = TypedArrayTemplate
  THEN Map(LAMBDA t : ClaimedClass(s, "_TypedArray_", t), typedArrayTypes)
  ELSE IF s.type = "class" /\ s.name = NativeErrorStructure
  THEN Map(LAMBDA t : ClaimedClass(s, "_NativeError_", t), errorTypes)
  ELSE <<s>>

\* C5: the expansion yields, in place of each template class, one class per
\* entry of the reference list, named by that entry, whose constructor and
\* static/prototype member names are the template's with every occurrence of
\* the placeholder replaced and whose instanceProperties are the template's;
\* every other descriptor is kept and the template itself is not.
C5_ExpansionSubstitutesEverywhere ==
  pc = "checkGlobals" => objects = Flat(Map(ClaimedExpansion, assembled))

\* 1-based position of "Properties of Error Instances", 0 when absent
ErrorInstancesAt(s) ==
  FindIndex(LAMBDA t : t.title = PropertiesOfErrorInstances, s.children) + 1

\* the groups emitted for "Error Objects" when the last sibling emitted is
\* the child at position last
ErrorGroupsUpTo(s, last) ==
  <<[title |-> s.title, id |-> s.id,
     children |-> SubSeq(s.children, 1, ErrorInstancesAt(s))],
    s.children[ErrorInstancesAt(s) + 2]>>
  \o SubSeq(s.children, ErrorInstancesAt(s) + 3, last)

\* C6 as claimed: the siblings after "Native Error Types Used in This
\* Standard" and "_NativeError_ Object Structure", up to and including the
\* last child of "Error Objects", are each emitted as a top-level group.
C6_ErrorSiblingsThroughLast ==
  pc = "classify" =>
    groups = Flat(Map(LAMBDA s : IF s.title = ErrorObjects
                                 THEN ErrorGroupsUpTo(s, Len(s.children))
                                 ELSE RewriteGroup(s),
                      ObjectGroups(toc)))

\* C6: "Error Objects" keeps its children up to and including "Properties of
\* Error Instances"; the next child (the native error types) is dropped, the
\* one after it is emitted as the template group, and the siblings after
\* those two are each emitted unchanged as a top-level group, except the last
\* child of "Error Objects", which is dropped.
C6_ErrorSiblingsButLast ==
  pc = "classify" =>
    groups = Flat(Map(LAMBDA s : IF s.title = ErrorObjects
                                 THEN ErrorGroupsUpTo(s, Len(s.children) - 1)
                                 ELSE RewriteGroup(s),
                      ObjectGroups(toc)))

C6_Witness ==
  /\ pc = "classify"
  /\ \E i \in 1..Len(ObjectGroups(toc)) :
       /\ ObjectGroups(toc)[i].title = ErrorObjects
       /\ Len(ObjectGroups(toc)[i].children) = 6
  /\ \E i \in 1..Len(groups) : groups[i].title = Sp(<<"AggregateError", "Objects">>)
  /\ \A i \in 1..Len(groups) :
       groups[i].title # Sp(<<"Abstract", "Operations", "for", "Error", "Objects">>)

HasTitle(sections, title) == \E i \in 1..Len(sections) : sections[i].title = title
\* every second-level section of the TOC
AllGroups(t) == Flat(Map(LAMBDA s : s.children, t))
StructureAsExpected(t) ==
  /\ HasTitle(t, FundamentalObjects)
  /\ HasTitle(t, Reflection)
  /\ \A i \in 1..Len(AllGroups(t)) :
       LET g == AllGroups(t)[i]
       IN /\ g.title = ErrorObjects => HasTitle(g.children, PropertiesOfErrorInstances)
          /\ g.title = TypedArrayObjects => HasTitle(g.children, AbstractOperationsForTA)
          /\ g.title = ObjectObjects => HasTitle(g.children, PropertiesOfObjectPrototype)
          /\ g.title = Iteration =>
               /\ HasTitle(g.children, IteratorPrototypeObject)
               /\ HasTitle(g.children, AsyncIteratorPrototypeObject)

\* C7: a run whose TOC lacks the "Fundamental Objects" or "Reflection"
\* heading, or in which one of the four rewritten groups lacks the child title
\* its rewrite looks for, aborts: it never writes a catalog.
C7_ReclassificationValidated ==
  dataFile.written => StructureAsExpected(toc)

AttributeCodes ==
  {SelectSeq(<<"w", "e", "c">>, LAMBDA l : l \in S) : S \in SUBSET {"w", "e", "c"}}

\* C8: every global-property descriptor of the written catalog has an
\* attribute code made of the letters w, e, c in that order, never null.
C8_GlobalPropertyCodes ==
  dataFile.written =>
    \A i \in 1..Len(dataFile.content) :
      dataFile.content[i].type = "global-property" =>
        dataFile.content[i].attributes \in AttributeCodes

HasGlobalFlag(o) == "global" \in DOMAIN o
NamedUnderGlobalObject(name) ==
  \/ \E i \in 1..Len(GlobalChildren(3)) :
       name = ReplaceFirst(GlobalChildren(3)[i].title, EllipsisSuffix, <<>>)
  \/ \E i \in 1..Len(GlobalChildren(4)) : name = GlobalChildren(4)[i].title
Propagating == pc \in {"appendGlobals", "flagConstructors", "flagOthers"}

PropagatorStep ==
  Propagating =>
    /\ toc' = toc
    /\ Len(objects') >= Len(objects)
    /\ pc # "appendGlobals" => Len(objects') = Len(objects)
    /\ \A i \in 1..Len(objects) :
         IF HasGlobalFlag(objects[i])
         THEN /\ HasGlobalFlag(objects'[i])
              /\ [objects'[i] EXCEPT !.global = objects[i].global] = objects[i]
              /\ objects[i].global => objects'[i].global
              /\ objects'[i].global # objects[i].global =>
                   /\ objects[i].type \in {"class", "namespace"}
                   /\ NamedUnderGlobalObject(objects[i].name)
         ELSE objects'[i] = objects[i]
    /\ \A i \in (Len(objects) + 1)..Len(objects') :
         /\ objects'[i].type \in {"global-property", "function"}
         /\ objects'[i].type = "function" => objects'[i].global

\* C9: the propagator changes the catalog only by setting global from false
\* to true on class or namespace descriptors named under the Global Object
\* clause and by appending global-property and function descriptors (the
\* latter with global = true) at the end; positions, types, names,
\* constructors and member lists are kept, and so is the TOC.
C9_PropagatorFrame ==
  /\ [](pc = "appendGlobals" =>
          \A i \in 1..Len(objects) : HasGlobalFlag(objects[i]) /\ ~objects[i].global)
  /\ [][PropagatorStep]_vars

C9_Witness ==
  /\ pc = "done"
  /\ \E i \in 1..Len(objects) :
       objects[i].type = "class" /\ objects[i].name = <<"Object">> /\ objects[i].global
  /\ \E i \in 1..Len(objects) :
       objects[i].type = "class" /\ objects[i].name = <<"Uint8Array">> /\ ~objects[i].global
  /\ \E i \in 1..Len(objects) : objects[i].type = "function" /\ objects[i].global
  /\ \E i \in 1..Len(objects) : objects[i].type = "global-property"

\* C10: no two descriptors of the written catalog have the same name.
C10_NamesUnique ==
  dataFile.written =>
    \A i \in 1..Len(dataFile.content) : \A j \in 1..Len(dataFile.content) :
      i # j => dataFile.content[i].name # dataFile.content[j].name

PropertyNames(props) == {props[i].name : i \in 1..Len(props)}

\* C11: in the written catalog no class descriptor has an instance property
\* whose name is also the name of one of its prototype properties or of one
\* of its static properties.
C11_InstancePropertiesDisjoint ==
  dataFile.written =>
    \A i \in 1..Len(dataFile.content) :
      dataFile.content[i].type = "class" =>
        PropertyNames(dataFile.content[i].instanceProperties)
          \cap (PropertyNames(dataFile.content[i].prototypeProperties)
                  \cup PropertyNames(dataFile.content[i].staticProperties)) = {}

HasAttributesField(m) == "attributes" \in DOMAIN m
MethodCarriesCode(s, m) ==
  LET attributes == getAttributes(s)
  IN IF attributes = nullAttributes THEN ~HasAttributesField(m)
     ELSE HasAttributesField(m) /\ m.attributes = attributes
MethodsCarryCodes(sections, methods) ==
  LET secs == Filter(LAMBDA p : EndsWithParen(p.title), sections)
  IN /\ Len(secs) = Len(methods)
     /\ \A j \in 1..Len(secs) : MethodCarriesCode(secs[j], methods[j])

\* C12: every method descriptor the assembler built with makeMethod has the
\* attribute code getAttributes returns for its section when the section has
\* an attributes paragraph (the code "" when the paragraph declares all three
\* flags false) and has no attributes field exactly when the section has no
\* attributes paragraph.
C12_MethodAttributeCodes ==
  assembled # <<>> =>
    \A i \in 1..Len(assembled) :
      IF assembled[i].type = "namespace"
      THEN MethodsCarryCodes(NamespaceSections(groups[i].children).methods,
                             assembled[i].staticMethods)
      ELSE /\ MethodsCarryCodes(
                getSubsections(groups[i].children, IsPropertiesOfConstructor),
                assembled[i].staticMethods)
           /\ MethodsCarryCodes(
                getSubsections(groups[i].children, IsPropertiesOfPrototype),
                assembled[i].instanceMethods)

====
